---- MODULE Spec2Model ----
(***************************************************************************)
(* Model of DBML Studio's diagram state: the undo/redo history store       *)
(* (utils/positionStorage.js, useHistoryStore) and the viewer's position   *)
(* reconciliation (components/DBMLViewer.jsx).                             *)
(***************************************************************************)
EXTENDS Integers, Sequences, FiniteSets, TLC

VARIABLES
    history,    \* useHistoryStore.history : the past stack, oldest first
    present,    \* useHistoryStore.present : <<>> for null, <<s>> for snapshot s
    future,     \* useHistoryStore.future  : the redo stack, next redo first
    ret,        \* value returned by the last direct undo()/redo(): <<>> for null
    trace,      \* the most recent direct store calls, oldest first (observer)
    nodes,      \* DBMLViewer: the React Flow nodes (useNodesState), as objects
    edges,      \* DBMLViewer: the React Flow edges (useEdgesState)
    projectId,  \* DBMLViewer: projectId state, the localStorage key suffix
    direction,  \* DBMLViewer: layout direction state, "TB" or "LR"
    lastParseResultRef,     \* DBMLViewer: identity of the parseResult last loaded
    lastKnownPositionsRef,  \* DBMLViewer: position map kept across re-parses
    dimensionsTimer,  \* DBMLViewer: <<>> or <<projectId the pending 100 ms timer saw>>
    dbmlCode,         \* App: the editor text (prop dbmlCode)
    parseResult,      \* App: <<>> for null, else <<the object parseDBML returned>>
    parseError,       \* App: <<>> for null, else <<the error parseDBML threw>>
    viewerPositions,  \* App: position map handed to the viewer as loadedPositions
    lastExternalValueRef,   \* DBMLEditor: the text the editor last saw
    initialParseRef,  \* DBMLEditor: TRUE once the mount-time parse has run
    debounceTimer,    \* DBMLEditor: <<>> for null, else <<the handle setTimeout returned>>
    timers,           \* browser: the pending 500 ms timers, [id, val] each
    error,            \* DBMLEditor: <<>> for null, else <<the message in the banner>>
    storage,    \* localStorage: 'dbml-positions-<key>' -> stored position map
    savedCode,  \* localStorage: 'dbml-studio-code' ("" when absent)
    lastOp      \* which handler ran last, how it ended, and where the tables were
                \* when the last parse error cleared the graph (observer)

storeVars  == <<history, present, future, ret>>
viewerVars == <<nodes, edges, projectId, direction, lastParseResultRef,
                lastKnownPositionsRef, dimensionsTimer>>
appVars    == <<dbmlCode, parseResult, parseError, viewerPositions>>
editorVars == <<lastExternalValueRef, initialParseRef, debounceTimer, timers, error>>
diskVars   == <<storage, savedCode>>
vars == <<history, present, future, ret, trace, nodes, edges, projectId, direction,
          lastParseResultRef, lastKnownPositionsRef, dimensionsTimer, dbmlCode,
          parseResult, parseError, viewerPositions, lastExternalValueRef,
          initialParseRef, debounceTimer, timers, error, storage, savedCode, lastOp>>

(***************************************************************************)
(* Bounds                                                                  *)
(***************************************************************************)
NumSnapshots == 3      \* distinct snapshot values offered to setPresent
MaxHistory   == 3      \* setPresent is not offered once past is this long
TraceLen     == 4      \* number of store calls the observer remembers

Snapshots == 1..NumSnapshots

\* JavaScript null for a snapshot-valued slot
NULL == <<>>

Call(op, arg) == [op |-> op, arg |-> arg]

\* append c to the observer's log, keeping its last TraceLen entries
Log(t, c) ==
    LET a == Append(t, c)
    IN  IF Len(a) > TraceLen THEN SubSeq(a, Len(a) - TraceLen + 1, Len(a)) ELSE a

(***************************************************************************)
(* JavaScript values that can sit in a coordinate slot.  A value is a      *)
(* record [t, n]: a finite number n, NaN, +Infinity, -Infinity, null,      *)
(* undefined (also: the property is missing) or a non-numeric string.      *)
(***************************************************************************)
Num(n)  == [t |-> "num",   n |-> n]
JsNaN   == [t |-> "nan",   n |-> 0]
PosInf  == [t |-> "inf",   n |-> 0]
NegInf  == [t |-> "ninf",  n |-> 0]
JsNull  == [t |-> "null",  n |-> 0]
Undef   == [t |-> "undef", n |-> 0]
JsStr   == [t |-> "str",   n |-> 0]

\* typeof v === 'number'
IsTypeofNumber(v) == v.t \in {"num", "nan", "inf", "ninf"}

\* the global isNaN(v): v is converted with Number() first, so undefined and
\* a non-numeric string are NaN while null converts to 0
IsNaN(v) == v.t \in {"nan", "undef", "str"}

\* Number.isFinite(v)
IsFinite(v) == v.t = "num"

\* truthiness of v, as in `v && ...` and `v || d`
Truthy(v) == v.t \in {"inf", "ninf", "str"} \/ (v.t = "num" /\ v.n # 0)

\* v || d
OrElse(v, d) == IF Truthy(v) THEN v ELSE d

\* a + b on numbers
JsAdd(a, b) ==
    CASE a.t = "nan" \/ b.t = "nan" -> JsNaN
      [] a.t = "inf"  -> IF b.t = "ninf" THEN JsNaN ELSE PosInf
      [] a.t = "ninf" -> IF b.t = "inf" THEN JsNaN ELSE NegInf
      [] b.t = "inf"  -> PosInf
      [] b.t = "ninf" -> NegInf
      [] OTHER -> Num(a.n + b.n)

\* -a on numbers
JsNeg(a) ==
    CASE a.t = "inf" -> NegInf
      [] a.t = "ninf" -> PosInf
      [] a.t = "num" -> Num(0 - a.n)
      [] OTHER -> JsNaN

\* a - b on numbers
JsSub(a, b) == JsAdd(a, JsNeg(b))

\* a < b on numbers (false when either is NaN)
JsLess(a, b) ==
    CASE a.t = "nan" \/ b.t = "nan" -> FALSE
      [] a.t = "ninf" -> b.t # "ninf"
      [] a.t = "inf"  -> FALSE
      [] b.t = "inf"  -> TRUE
      [] b.t = "ninf" -> FALSE
      [] OTHER -> a.n < b.n

\* Math.max(a, b) and Math.min(a, b): NaN if either argument is NaN
MathMax(a, b) ==
    IF a.t = "nan" \/ b.t = "nan" THEN JsNaN
    ELSE IF JsLess(a, b) THEN b ELSE a

MathMin(a, b) ==
    IF a.t = "nan" \/ b.t = "nan" THEN JsNaN
    ELSE IF JsLess(b, a) THEN b ELSE a

\* Number(v) || 0 for a number v
NumberOrZero(v) == IF Truthy(v) /\ v.t # "str" THEN v ELSE Num(0)

(***************************************************************************)
(* parseDBML (utils/dbmlParser.js): the graph compiled from the parser's   *)
(* database object.  A database is                                        *)
(*   [tables      : sequence of [name, headerColor],                       *)
(*    tableGroups : sequence of [name, tables (names), headerColor],       *)
(*    refs        : sequence of [endpoints (table names), name],           *)
(*    name        : the project name]                                      *)
(* with "" for an absent string.                                           *)
(***************************************************************************)
TABLES_PER_ROW      == 2
TABLE_WIDTH         == 300
TABLE_HEIGHT        == 280
TABLE_SPACING       == 30
GROUP_PADDING       == 40
GROUP_HEADER_HEIGHT == 60
GROUP_GAP           == 100     \* groupIndex * (groupWidth + 100) + 50
GROUP_ORIGIN        == 50      \* groupY, and the x of the first group
UNGROUPED_COLS      == 3
UNGROUPED_DX        == 350
UNGROUPED_DY        == 300
UNGROUPED_X0        == 100
UNGROUPED_Y0        == 100     \* startY without groups
UNGROUPED_Y0_GROUPS == 800     \* startY when the schema has groups
PROJECT_X           == 50
PROJECT_GAP         == 50
PROJECT_WIDTH       == 450
PROJECT_HEIGHT      == 120

DEFAULT_COLOR == "#667eea"
groupColors   == <<"#667eea", "#f093fb", "#4facfe", "#43e97b", "#fa709a">>

Min2(a, b) == IF a < b THEN a ELSE b
Max2(a, b) == IF a < b THEN b ELSE a
\* Math.ceil(a / b) for a >= 0, b > 0
CeilDiv(a, b) == (a + b - 1) \div b

Range(q) == {q[i] : i \in 1..Len(q)}

\* tableToGroup[name]: the index of the group whose entry was written last,
\* 0 when no group lists the table
tableToGroup(db, name) ==
    LET listing == {g \in 1..Len(db.tableGroups) : name \in Range(db.tableGroups[g].tables)}
    IN  IF listing = {} THEN 0 ELSE CHOOSE g \in listing : \A h \in listing : h <= g

groupWidth(tableCount) ==
    LET numCols == Min2(tableCount, TABLES_PER_ROW)
    IN  GROUP_PADDING * 2 + numCols * TABLE_WIDTH + (numCols - 1) * TABLE_SPACING

\* groupHeight for a group that is taken to hold one row
groupHeightOneRow(tableCount) ==
    GROUP_HEADER_HEIGHT + GROUP_PADDING + TABLE_HEIGHT + GROUP_PADDING

groupHeight(tableCount) ==
    LET numRows == CeilDiv(tableCount, TABLES_PER_ROW)
    IN  GROUP_HEADER_HEIGHT + GROUP_PADDING + numRows * TABLE_HEIGHT
          + (numRows - 1) * TABLE_SPACING + GROUP_PADDING

\* the node pushed for tableGroups[g]
groupNode(db, g) ==
    LET group == db.tableGroups[g]
        idx   == g - 1
        w     == groupWidth(Len(group.tables))
        h     == groupHeight(Len(group.tables))
    IN  [id         |-> "group-" \o group.name,
         type       |-> "group",
         position   |-> [x |-> NumberOrZero(Num(idx * (w + GROUP_GAP) + GROUP_ORIGIN)),
                         y |-> NumberOrZero(Num(GROUP_ORIGIN))],
         width      |-> Num(w),
         height     |-> Num(h),
         parentNode |-> "",
         color      |-> IF group.headerColor # "" THEN group.headerColor
                        ELSE groupColors[(idx % Len(groupColors)) + 1]]

\* the node pushed for tables[k]
tableNode(db, k) ==
    LET table == db.tables[k]
        g     == tableToGroup(db, table.name)
        gname == db.tableGroups[g].name
        \* groupedTablePositions[tableGroup.name] when tables[k] is reached
        posIndex == Cardinality({j \in 1..(k - 1) :
                        /\ tableToGroup(db, db.tables[j].name) # 0
                        /\ db.tableGroups[tableToGroup(db, db.tables[j].name)].name = gname})
        ungroupedIndex == Cardinality({j \in 1..(k - 1) :
                        tableToGroup(db, db.tables[j].name) = 0})
        startY == IF Len(db.tableGroups) > 0 THEN UNGROUPED_Y0_GROUPS ELSE UNGROUPED_Y0
        position ==
            IF g # 0
            THEN [x |-> NumberOrZero(Num(GROUP_PADDING
                          + (posIndex % TABLES_PER_ROW) * (TABLE_WIDTH + TABLE_SPACING))),
                  y |-> NumberOrZero(Num(GROUP_HEADER_HEIGHT + GROUP_PADDING
                          + (posIndex \div TABLES_PER_ROW) * (TABLE_HEIGHT + TABLE_SPACING)))]
            ELSE [x |-> NumberOrZero(Num((ungroupedIndex % UNGROUPED_COLS) * UNGROUPED_DX
                          + UNGROUPED_X0)),
                  y |-> NumberOrZero(Num((ungroupedIndex \div UNGROUPED_COLS) * UNGROUPED_DY
                          + startY))]
        tableGroupColor ==
            IF db.tableGroups[g].headerColor # "" THEN db.tableGroups[g].headerColor
            ELSE DEFAULT_COLOR
    IN  [id         |-> table.name,
         type       |-> "table",
         position   |-> position,
         width      |-> Num(TABLE_WIDTH),
         height     |-> Num(TABLE_HEIGHT),
         parentNode |-> IF g # 0 THEN "group-" \o gname ELSE "",
         color      |-> IF table.headerColor # "" THEN table.headerColor
                        ELSE IF g # 0 THEN tableGroupColor ELSE DEFAULT_COLOR]

\* nodes.reduce(...): the largest position.y + (height || 280), at least 0
RECURSIVE maxBottom(_)
maxBottom(ns) ==
    IF ns = <<>> THEN Num(0)
    ELSE LET rest  == maxBottom(SubSeq(ns, 1, Len(ns) - 1))
             node  == ns[Len(ns)]
             nodeY == JsAdd(node.position.y, OrElse(node.height, Num(TABLE_HEIGHT)))
         IN  IF JsLess(rest, nodeY) THEN nodeY ELSE rest

projectNode(ns) ==
    [id         |-> "project-info",
     type       |-> "project",
     position   |-> [x |-> Num(PROJECT_X), y |-> JsAdd(maxBottom(ns), Num(PROJECT_GAP))],
     width      |-> Num(PROJECT_WIDTH),
     height     |-> Num(PROJECT_HEIGHT),
     parentNode |-> "",
     color      |-> ""]

\* refs.forEach without the try block around each ref: the first ref with a
\* missing endpoint ends the loop
RECURSIVE refEdgesUnguarded(_, _)
refEdgesUnguarded(refs, k) ==
    IF k > Len(refs) \/ Len(refs[k].endpoints) < 2 THEN <<>>
    ELSE LET ref == refs[k]
             ok  == ref.endpoints[1] # "" /\ ref.endpoints[2] # ""
             edge == [id     |-> "e" \o ToString(k - 1) \o "-" \o ref.endpoints[1]
                                    \o "-" \o ref.endpoints[2],
                      source |-> ref.endpoints[1],
                      target |-> ref.endpoints[2],
                      label  |-> ref.name]
         IN  (IF ok THEN <<edge>> ELSE <<>>) \o refEdgesUnguarded(refs, k + 1)

\* the edges pushed for refs: a ref whose endpoint is missing throws inside
\* its own try block, one whose table name is empty fails the if
RECURSIVE refEdges(_, _)
refEdges(refs, k) ==
    IF k > Len(refs) THEN <<>>
    ELSE LET ref == refs[k]
             ok  == Len(ref.endpoints) >= 2 /\ ref.endpoints[1] # "" /\ ref.endpoints[2] # ""
             edge == [id     |-> "e" \o ToString(k - 1) \o "-" \o ref.endpoints[1]
                                    \o "-" \o ref.endpoints[2],
                      source |-> ref.endpoints[1],
                      target |-> ref.endpoints[2],
                      label  |-> ref.name]
         IN  (IF ok THEN <<edge>> ELSE <<>>) \o refEdges(refs, k + 1)

\* parseDBML without the return on tables.length === 0
parseDBMLAnyTables(db) ==
    LET groupNodes == [g \in 1..Len(db.tableGroups) |-> groupNode(db, g)]
        tableNodes == [k \in 1..Len(db.tables) |-> tableNode(db, k)]
        ns         == groupNodes \o tableNodes
    IN  [nodes   |-> IF db.name # "" THEN Append(ns, projectNode(ns)) ELSE ns,
         edges   |-> refEdges(db.refs, 1),
         project |-> db.name]

\* the value parseDBML returns for the database the parser produced
parseDBML(db) ==
    IF Len(db.tables) = 0
    THEN [nodes |-> <<>>, edges |-> <<>>, project |-> ""]
    ELSE LET groupNodes == [g \in 1..Len(db.tableGroups) |-> groupNode(db, g)]
             tableNodes == [k \in 1..Len(db.tables) |-> tableNode(db, k)]
             ns         == groupNodes \o tableNodes
         IN  [nodes   |-> IF db.name # "" THEN Append(ns, projectNode(ns)) ELSE ns,
              edges   |-> refEdges(db.refs, 1),
              project |-> db.name]

(***************************************************************************)
(* useHistoryStore (utils/positionStorage.js:25-63)                        *)
(* A snapshot is always an object, hence truthy: `if (past)` tests for     *)
(* null only.  present is non-null whenever history or future is not       *)
(* empty, so [present, ...future] and [...history, present] are written    *)
(* as concatenations with the wrapped present.                             *)
(***************************************************************************)

\* the store as one value
Store == [history |-> history, present |-> present, future |-> future]

\* set(st): the store's fields become those of st
SetStore(st) ==
    /\ history' = st.history
    /\ present' = st.present
    /\ future'  = st.future

\* a bug that keeps the redo stack when a new state is committed
setPresentKeepFuture(st, s) ==
    IF st.present # NULL
    THEN [history |-> st.history \o st.present, present |-> <<s>>, future |-> st.future]
    ELSE [st EXCEPT !.present = <<s>>]

\* the store after setPresent(s)
setPresent(st, s) ==
    IF st.present # NULL
    THEN [history |-> st.history \o st.present, present |-> <<s>>, future |-> <<>>]
    ELSE [st EXCEPT !.present = <<s>>]

\* a bug that pops the oldest entry of the past instead of the newest
undoOldest(st) ==
    IF Len(st.history) > 0
    THEN [store |-> [history |-> Tail(st.history),
                     present |-> <<st.history[1]>>,
                     future  |-> st.present \o st.future],
          ret   |-> <<st.history[1]>>]
    ELSE [store |-> st, ret |-> NULL]

\* a bug that forgets to put the old present on the future
undoDropping(st) ==
    IF Len(st.history) > 0
    THEN [store |-> [history |-> SubSeq(st.history, 1, Len(st.history) - 1),
                     present |-> <<st.history[Len(st.history)]>>,
                     future  |-> st.future],
          ret   |-> <<st.history[Len(st.history)]>>]
    ELSE [store |-> st, ret |-> NULL]

\* undo(): the store after the call and the value returned
undo(st) ==
    IF Len(st.history) > 0
    THEN LET newPresent == st.history[Len(st.history)]
         IN  [store |-> [history |-> SubSeq(st.history, 1, Len(st.history) - 1),
                         present |-> <<newPresent>>,
                         future  |-> st.present \o st.future],
              ret   |-> <<newPresent>>]
    ELSE [store |-> st, ret |-> NULL]

\* a bug that drops the present when there is nothing to redo
redoClearing(st) ==
    IF Len(st.future) > 0
    THEN LET newPresent == st.future[1]
         IN  [store |-> [history |-> st.history \o st.present,
                         present |-> <<newPresent>>,
                         future  |-> Tail(st.future)],
              ret   |-> <<newPresent>>]
    ELSE [store |-> [st EXCEPT !.present = NULL], ret |-> NULL]

\* redo(): the store after the call and the value returned
redo(st) ==
    IF Len(st.future) > 0
    THEN LET newPresent == st.future[1]
         IN  [store |-> [history |-> st.history \o st.present,
                         present |-> <<newPresent>>,
                         future  |-> Tail(st.future)],
              ret   |-> <<newPresent>>]
    ELSE [store |-> st, ret |-> NULL]

(***************************************************************************)
(* Position maps.  A map is a function from node ids to entries            *)
(* [x, y, width, height] of JavaScript values (Undef: property missing);   *)
(* the map with no key stands for {} and for null alike, both of which     *)
(* fail `m && Object.keys(m).length > 0`.                                  *)
(***************************************************************************)
EmptyMap == <<>>

Entry(x, y) == [x |-> x, y |-> y, width |-> Undef, height |-> Undef]

\* Object.keys(m).length > 0
HasKeys(m) == DOMAIN m # {}

\* typeof p.x === 'number' && typeof p.y === 'number' && !isNaN(p.x) && !isNaN(p.y)
ValidPosition(p) ==
    /\ IsTypeofNumber(p.x)
    /\ IsTypeofNumber(p.y)
    /\ ~IsNaN(p.x)
    /\ ~IsNaN(p.y)

\* JSON.parse(JSON.stringify(v)) of one property value: NaN and the
\* infinities are written as null, an undefined property is left out
JsonValue(v) == IF v.t \in {"nan", "inf", "ninf"} THEN JsNull ELSE v

\* what loadPositions reads back after savePositions(key, m)
JsonRoundTrip(m) ==
    [id \in DOMAIN m |-> [x      |-> JsonValue(m[id].x),
                          y      |-> JsonValue(m[id].y),
                          width  |-> JsonValue(m[id].width),
                          height |-> JsonValue(m[id].height)]]

(***************************************************************************)
(* Objects.  Node objects and parseDBML results carry an identity (oid):   *)
(* React state, history snapshots and parseResult.nodes may hold the same  *)
(* object.  Identities are renamed after every handler to the order in     *)
(* which the state reaches them, so that two states differing only in the  *)
(* names of their objects are one state.                                   *)
(***************************************************************************)
WithOid(n, k) == [oid |-> k] @@ n

\* the object's fields without its identity
Val(o) == [o EXCEPT !.oid = 0]
Vals(q) == [i \in 1..Len(q) |-> Val(q[i])]

OidsOf(q) == [i \in 1..Len(q) |-> q[i].oid]

RECURSIVE SnapshotOids(_)
SnapshotOids(q) ==
    IF q = <<>> THEN <<>> ELSE OidsOf(q[1].nodes) \o SnapshotOids(Tail(q))

ResultOids(pr) == IF pr = NULL THEN <<>> ELSE <<pr[1].oid>> \o OidsOf(pr[1].nodes)

\* every identity the state (ns, pr, ref, st) holds, in a fixed order
ReachedOids(ns, pr, ref, st) ==
    OidsOf(ns) \o ResultOids(pr) \o ref
       \o SnapshotOids(st.present) \o SnapshotOids(st.history) \o SnapshotOids(st.future)

\* the k-th smallest identity not in used
FreshOid(used, k) ==
    LET free == (1..(Cardinality(used) + k)) \ used
    IN  CHOOSE n \in free : Cardinality({m \in free : m < n}) = k - 1

UsedOids == Range(ReachedOids(nodes, parseResult, lastParseResultRef, Store))

\* new name of identity o: the number of identities reached up to its first
\* occurrence in q
Rank(q, o) ==
    LET first == CHOOSE i \in 1..Len(q) : q[i] = o /\ \A j \in 1..(i - 1) : q[j] # o
    IN  Cardinality({q[j] : j \in 1..first})

RenameNodes(q, ns) == [i \in 1..Len(ns) |-> [ns[i] EXCEPT !.oid = Rank(q, ns[i].oid)]]

RenameSnapshots(q, ss) ==
    [i \in 1..Len(ss) |-> [ss[i] EXCEPT !.nodes = RenameNodes(q, ss[i].nodes)]]

\* the handler leaves nodes ns, parseResult pr, lastParseResultRef ref and
\* the store st
Commit(ns, pr, ref, st) ==
    LET q == ReachedOids(ns, pr, ref, st)
    IN  /\ nodes' = RenameNodes(q, ns)
        /\ parseResult' =
              IF pr = NULL THEN NULL
              ELSE <<[pr[1] EXCEPT !.oid = Rank(q, pr[1].oid),
                                   !.nodes = RenameNodes(q, pr[1].nodes)]>>
        /\ lastParseResultRef' = IF ref = NULL THEN NULL ELSE <<Rank(q, ref[1])>>
        /\ SetStore([history |-> RenameSnapshots(q, st.history),
                     present |-> RenameSnapshots(q, st.present),
                     future  |-> RenameSnapshots(q, st.future)])

\* { nodes, edges } as handed to setPresent; `at` records the node values
\* at that moment (observer)
Snapshot(ns, es) == [nodes |-> ns, edges |-> es, at |-> Vals(ns)]

\* a getNodes() that hands out the very objects of the nodes state
getNodesShared == nodes

\* useReactFlow().getNodes(): React Flow hands out a shallow copy of each
\* node of its store, which mirrors the nodes state
getNodes ==
    [i \in 1..Len(nodes) |-> [nodes[i] EXCEPT !.oid = FreshOid(UsedOids, i)]]

(***************************************************************************)
(* Editor texts.  The DBML parser (@dbml/core) is outside the repository:  *)
(* a text stands for what the parser answers for it, a database or a       *)
(* syntax error.  "" is the empty editor.                                  *)
(***************************************************************************)
Table(n)       == [name |-> n, headerColor |-> ""]
Group(n, ts)   == [name |-> n, tables |-> ts, headerColor |-> ""]
Ref(a, b)      == [endpoints |-> <<a, b>>, name |-> ""]

\* group g holding t1, and t2 outside any group
GroupedDb ==
    [tables      |-> <<Table("t1"), Table("t2")>>,
     tableGroups |-> <<Group("g", <<"t1">>)>>,
     refs        |-> <<Ref("t2", "t1")>>,
     name        |-> ""]

\* the same two tables in the other order, no group
FlatDb ==
    [tables      |-> <<Table("t2"), Table("t1")>>,
     tableGroups |-> <<>>,
     refs        |-> <<>>,
     name        |-> ""]

\* "A" and "A2" are two texts of the same schema that differ only after
\* their 12th character, "B" is another schema, "E" does not parse
Texts == {"A", "A2", "B", "E"}

\* !dbmlCode || dbmlCode.trim() === '': the empty and the whitespace-only text
Blank(code) == code \in {"", " "}

\* a ref one of whose endpoints is missing
HalfRef(a) == [endpoints |-> <<a>>, name |-> ""]

\* the parts of the schemas the parser is fed: table lists (some with names
\* that look like the ids of other nodes, one with six tables), group lists
\* (one with a table in two groups, one with a group of five), ref lists (with a
\* self-reference, a missing endpoint, an empty table name, a table that
\* does not exist) and project names
TableLists ==
    << <<>>,
       <<Table("t1")>>,
       <<Table("t1"), Table("t2")>>,
       <<Table("t1"), Table("group-g")>>,
       <<Table("project-info"), Table("t1")>>,
       <<Table("t1"), Table("t2"), Table("t3"), Table("t4"), Table("t5"), Table("t6")>> >>
GroupLists ==
    << <<>>,
       <<Group("g", <<"t1">>)>>,
       <<Group("g", <<"t1", "t2">>), Group("h", <<>>)>>,
       <<Group("g", <<"t1">>), Group("h", <<"t1", "t2">>)>>,
       <<Group("g", <<"t1", "t2", "t3", "t4", "t5">>)>>,
       <<Group("g", <<"t1", "t2">>), Group("h", <<"t3">>)>> >>
RefLists ==
    << <<>>,
       <<Ref("t1", "t2")>>,
       <<Ref("t1", "t1")>>,
       <<HalfRef("t1"), Ref("t2", "t1")>>,
       <<Ref("t1", ""), Ref("t1", "t2")>>,
       <<Ref("t1", "t2"), Ref("t1", "t2"), Ref("t1", "zz")>> >>
ProjectNames == <<"", "shop">>

SchemaCodes ==
    (1..Len(TableLists)) \X (1..Len(GroupLists)) \X (1..Len(RefLists))
        \X (1..Len(ProjectNames))

\* the schema made of the parts c names, and a text that parses to it
Schema(c) ==
    [tables      |-> TableLists[c[1]],
     tableGroups |-> GroupLists[c[2]],
     refs        |-> RefLists[c[3]],
     name        |-> ProjectNames[c[4]]]
SchemaText(c) ==
    "S" \o ToString(c[1]) \o ToString(c[2]) \o ToString(c[3]) \o ToString(c[4])
SchemaTexts == {SchemaText(c) : c \in SchemaCodes}

\* an entry of the diags / datas array of a parser error, and a position
Pos(line, column) == [line |-> line, column |-> column]
Diag(message, location, start) ==
    [message |-> message, location |-> location, start |-> start]

\* the parts of the errors parser.parse throws: the message, the diags array
\* (absent, empty, or with a first entry that has location.start, start,
\* both or neither), the datas array, which of the two for...in enumerates
\* and in which order, and the error's own location.start
Messages == <<"", "raw">>
DiagLists ==
    << NULL,
       << <<>> >>,
       << <<Diag("d", <<Pos(1, 2)>>, NULL)>> >>,
       << <<Diag("", NULL, <<Pos(3, 4)>>)>> >>,
       << <<Diag("d", <<Pos(1, 2)>>, <<Pos(3, 4)>>)>> >>,
       << <<Diag("d", NULL, NULL)>> >>,
       << <<Diag("d", NULL, NULL), Diag("e", <<Pos(1, 2)>>, NULL)>> >> >>
DatasLists == << NULL, << <<Diag("x", <<Pos(5, 6)>>, NULL)>> >> >>
KeyOrders == << <<>>, <<"diags", "datas">>, <<"datas", "diags">> >>
Locations == << NULL, <<Pos(7, 8)>> >>

ErrorCodes ==
    (1..Len(Messages)) \X (1..Len(DiagLists)) \X (1..Len(DatasLists))
        \X (1..Len(KeyOrders)) \X (1..Len(Locations))

\* the keys of ks whose property the error has
RECURSIVE ownKeys(_, _)
ownKeys(e, ks) ==
    IF ks = <<>> THEN <<>>
    ELSE IF e[Head(ks)] # NULL THEN <<Head(ks)>> \o ownKeys(e, Tail(ks))
    ELSE ownKeys(e, Tail(ks))

\* the error made of the parts c names, and a text the parser rejects
\* with it
CompilerError(c) ==
    LET e == [message  |-> Messages[c[1]],
              diags    |-> DiagLists[c[2]],
              datas    |-> DatasLists[c[3]],
              location |-> Locations[c[5]]]
    IN  [message  |-> e.message,
         diags    |-> e.diags,
         datas    |-> e.datas,
         location |-> e.location,
         keys     |-> ownKeys(e, KeyOrders[c[4]])]
ErrorText(c) ==
    "E" \o ToString(c[1]) \o ToString(c[2]) \o ToString(c[3]) \o ToString(c[4])
        \o ToString(c[5])
ErrorTexts == {ErrorText(c) : c \in ErrorCodes}

SyntaxError(code) == code = "E" \/ code \in ErrorTexts

\* what parser.parse(dbmlCode, 'dbml') throws on a text with a syntax
\* error; "E" gets what @dbml/core throws, diags with a location
ParserError(code) ==
    IF code = "E"
    THEN [message  |-> "raw",
          diags    |-> << <<Diag("d", <<Pos(1, 2)>>, NULL)>> >>,
          datas    |-> NULL,
          location |-> NULL,
          keys     |-> <<"diags">>]
    ELSE CompilerError(CHOOSE c \in ErrorCodes : ErrorText(c) = code)

\* what parser.parse(dbmlCode, 'dbml') returns on a text that parses
Database(code) ==
    IF code = "B" THEN FlatDb
    ELSE IF code \in SchemaTexts
    THEN Schema(CHOOSE c \in SchemaCodes : SchemaText(c) = code)
    ELSE GroupedDb

\* the array the catch block of parseDBML settles on: the last of diags and
\* datas that for...in enumerates, else diags, else datas
datasArray(e) ==
    IF e.keys # <<>> THEN e[e.keys[Len(e.keys)]]
    ELSE IF e.diags # NULL THEN e.diags
    ELSE e.datas

\* datasArray && Array.isArray(datasArray) && datasArray.length > 0
hasFirstError(e) == datasArray(e) # NULL /\ Len(datasArray(e)[1]) > 0
firstError(e) == datasArray(e)[1][1]

\* errorLocation: <<>> for null, else <<{line, column}>>
errorLocation(e) ==
    IF hasFirstError(e)
    THEN IF firstError(e).location # NULL THEN firstError(e).location
         ELSE IF firstError(e).start # NULL THEN firstError(e).start
         ELSE NULL
    ELSE e.location

\* errorMessage: the parser's message, or the first entry's, behind the
\* position when there is one
errorMessage(e) ==
    LET raw == IF e.message # "" THEN e.message ELSE "Invalid DBML syntax"
        loc == errorLocation(e)
        msg == IF hasFirstError(e) /\ firstError(e).message # ""
               THEN firstError(e).message ELSE raw
    IN  IF loc = NULL THEN raw
        ELSE "Line " \o ToString(loc[1].line) \o ", Column "
                 \o ToString(loc[1].column) \o ": " \o msg

\* the error parseDBML(code) throws on a text that is blank or does not
\* parse
thrown(code) ==
    IF Blank(code)
    THEN [message |-> "DBML code is empty", location |-> NULL]
    ELSE [message  |-> errorMessage(ParserError(code)),
          location |-> errorLocation(ParserError(code))]

\* btoa(code) throws on a character outside Latin-1
Latin1(code) == TRUE

\* btoa(dbmlCode).substring(0, 16): decided by the first 12 characters
HashHead(code) == IF code \in {"A", "A2"} THEN "hA" ELSE "h" \o code

\* dbmlCode ? btoa(dbmlCode).substring(0, 16) : 'default'
Hash(code) == IF code = "" THEN "default" ELSE HashHead(code)

StorageKeys == {"default"} \cup {HashHead(c) : c \in Texts}

\* the object a call of parseDBML(code) returns: new objects, named after
\* the identities in used
ParseObject(code, used) ==
    LET r == parseDBML(Database(code))
    IN  [oid     |-> FreshOid(used, 1),
         nodes   |-> [i \in 1..Len(r.nodes) |-> WithOid(r.nodes[i], FreshOid(used, i + 1))],
         edges   |-> r.edges,
         project |-> r.project]

(***************************************************************************)
(* DBMLViewer: loadDiagram (components/DBMLViewer.jsx:79-239)              *)
(***************************************************************************)
VIEW_GROUP_PADDING   == 40      \* const padding
VIEW_HEADER_HEIGHT   == 50      \* const headerHeight
VIEW_CHILD_WIDTH     == 300     \* child.width || 300
VIEW_CHILD_HEIGHT    == 280     \* child.height || 280
VIEW_GROUP_WIDTH     == 500     \* node.width || 500
VIEW_GROUP_HEIGHT    == 400     \* node.height || 400

MaxPast == 2    \* handlers that call setPresent are not offered beyond this

\* currentPositions: the position of each node getNodes() returns whose
\* position passes the check (a later node of the same id overwrites)
currentPositions(ns) ==
    LET valid == {i \in 1..Len(ns) : ValidPosition(ns[i].position)}
        last(id) == CHOOSE i \in valid : ns[i].id = id /\ \A j \in valid : ns[j].id = id => j <= i
    IN  [id \in {ns[i].id : i \in valid} |->
            Entry(ns[last(id)].position.x, ns[last(id)].position.y)]

\* a bug that ranks the editing session's positions above the loaded ones
finalPositionsLastKnownFirst(loaded, lastKnown, current, saved) ==
    IF HasKeys(lastKnown) THEN lastKnown
    ELSE IF HasKeys(loaded) THEN loaded
    ELSE IF HasKeys(current) THEN current
    ELSE IF HasKeys(saved) THEN saved
    ELSE EmptyMap

\* a bug that fills the gaps of the winning source from the stored map
finalPositionsMerged(loaded, lastKnown, current, saved) ==
    LET win == IF HasKeys(loaded) THEN loaded
               ELSE IF HasKeys(lastKnown) THEN lastKnown
               ELSE IF HasKeys(current) THEN current
               ELSE saved
    IN  [id \in DOMAIN win \cup DOMAIN saved |->
            IF id \in DOMAIN win THEN win[id] ELSE saved[id]]

\* finalPositions: loadedPositions > lastKnownPositions > currentPositions
\* > savedPositions
finalPositions(loaded, lastKnown, current, saved) ==
    IF HasKeys(loaded) THEN loaded
    ELSE IF HasKeys(lastKnown) THEN lastKnown
    ELSE IF HasKeys(current) THEN current
    ELSE IF HasKeys(saved) THEN saved
    ELSE EmptyMap

\* a bug that leaves the ref cleared after a diagram was loaded
lastKnownAfterCleared(loaded, lastKnown, final) ==
    IF HasKeys(loaded) THEN EmptyMap
    ELSE IF HasKeys(final) THEN final ELSE lastKnown

\* lastKnownPositionsRef.current when the pass is over: cleared in loading
\* mode, then set to a clone of finalPositions when that has a key
lastKnownAfter(loaded, lastKnown, final) ==
    LET cleared == IF HasKeys(loaded) THEN EmptyMap ELSE lastKnown
    IN  IF HasKeys(final) THEN final ELSE cleared

\* does the node take a position from finalPositions
Applies(final, node) ==
    /\ node.id \in DOMAIN final
    /\ ValidPosition(final[node.id])

\* one node of nodesWithPositions (its identity apart)
withPosition(final, node) ==
    IF Applies(final, node)
    THEN LET savedPos == final[node.id]
             moved == [node EXCEPT !.position = [x |-> savedPos.x, y |-> savedPos.y]]
         IN  IF node.type = "project" /\ Truthy(savedPos.width) /\ Truthy(savedPos.height)
             THEN [moved EXCEPT !.width = savedPos.width, !.height = savedPos.height]
             ELSE moved
    ELSE node

\* the bounding box of children: [minX, minY, maxX, maxY]
RECURSIVE childBox(_)
childBox(children) ==
    IF children = <<>>
    THEN [minX |-> PosInf, minY |-> PosInf, maxX |-> NegInf, maxY |-> NegInf]
    ELSE LET box   == childBox(SubSeq(children, 1, Len(children) - 1))
             child == children[Len(children)]
             childWidth  == OrElse(child.width, Num(VIEW_CHILD_WIDTH))
             childHeight == OrElse(child.height, Num(VIEW_CHILD_HEIGHT))
         IN  [minX |-> MathMin(box.minX, child.position.x),
              minY |-> MathMin(box.minY, child.position.y),
              maxX |-> MathMax(box.maxX, JsAdd(child.position.x, childWidth)),
              maxY |-> MathMax(box.maxY, JsAdd(child.position.y, childHeight))]

\* nodesWithPositions.filter(n => n.parentNode === id)
childrenOf(nwp, id) ==
    LET F[i \in 0..Len(nwp)] ==
            IF i = 0 THEN <<>>
            ELSE IF nwp[i].parentNode = id THEN Append(F[i - 1], nwp[i]) ELSE F[i - 1]
    IN  F[Len(nwp)]

\* does nodesWithGroupSizes rebuild the node
Resizes(nwp, node) ==
    /\ node.type = "group"
    /\ \E i \in 1..Len(nwp) : nwp[i].parentNode = node.id

\* one node of nodesWithGroupSizes (its identity apart)
withGroupSize(nwp, node) ==
    IF Resizes(nwp, node)
    THEN LET box    == childBox(childrenOf(nwp, node.id))
             width  == JsAdd(JsSub(box.maxX, box.minX), Num(VIEW_GROUP_PADDING * 2))
             height == JsAdd(JsAdd(JsSub(box.maxY, box.minY), Num(VIEW_HEADER_HEIGHT)),
                             Num(VIEW_GROUP_PADDING * 2))
         IN  [node EXCEPT
                !.width  = MathMax(width, OrElse(node.width, Num(VIEW_GROUP_WIDTH))),
                !.height = MathMax(height, OrElse(node.height, Num(VIEW_GROUP_HEIGHT)))]
    ELSE node

\* nodesWithGroupSizes for the parsed nodes: a node that is moved or resized
\* is a new object ({...node}), any other stays the object parseDBML made
reconciledNodes(parsedNodes, final, used) ==
    LET nwp == [i \in 1..Len(parsedNodes) |-> withPosition(final, parsedNodes[i])]
    IN  [i \in 1..Len(parsedNodes) |->
            IF Applies(final, parsedNodes[i]) \/ Resizes(nwp, nwp[i])
            THEN [withGroupSize(nwp, nwp[i]) EXCEPT !.oid = FreshOid(used, i)]
            ELSE parsedNodes[i]]

\* what a run of the effect reads and writes in the viewer and on disk
View ==
    [nodes     |-> nodes,
     edges     |-> edges,
     projectId |-> projectId,
     ref       |-> lastParseResultRef,
     lastKnown |-> lastKnownPositionsRef,
     store     |-> Store,
     storage   |-> storage]

\* the effect on [parseResult, parseError, dbmlCode], run in view v with the
\* props pr (parseResult), err (parseError), code (dbmlCode) and loaded
\* (loadedPositions): the view it leaves and how it ended (pass)
loadDiagram(v, pr, err, code, loaded) ==
    LET ref == IF pr = NULL THEN NULL ELSE <<pr[1].oid>>
        end(w, pass) == [view |-> w, pass |-> pass]
    IN  IF ref = v.ref
        THEN \* parseResult === lastParseResultRef.current
             end(v, "same")
        ELSE IF err # NULL
        THEN \* a parse error clears the diagram
             end([v EXCEPT !.ref = ref, !.nodes = <<>>, !.edges = <<>>], "error")
        ELSE IF pr = NULL
        THEN end([v EXCEPT !.ref = ref], "null")
        ELSE IF code # "" /\ ~Latin1(code)
        THEN \* btoa throws, the catch block logs the error
             end([v EXCEPT !.ref = ref], "threw")
        ELSE LET hash    == Hash(code)
                 \* getNodes() hands out copies; only their values are read
                 current == currentPositions(v.nodes)
                 saved   == v.storage[hash]
                 final   == finalPositions(loaded, v.lastKnown, current, saved)
                 used    == Range(ReachedOids(v.nodes, pr, v.ref, v.store))
                 nodesWithGroupSizes == reconciledNodes(pr[1].nodes, final, used)
             IN  [view |->
                    [nodes     |-> nodesWithGroupSizes,
                     edges     |-> pr[1].edges,
                     projectId |-> hash,
                     ref       |-> ref,
                     lastKnown |-> lastKnownAfter(loaded, v.lastKnown, final),
                     store     |-> setPresent(v.store,
                                       Snapshot(nodesWithGroupSizes, pr[1].edges)),
                     storage   |-> IF HasKeys(final)
                                   THEN [v.storage EXCEPT ![hash] = JsonRoundTrip(final)]
                                   ELSE v.storage],
                  pass |-> "loaded"]

\* where the tables of the graph ns are (observer: what was on screen when a
\* parse error cleared it)
tablePositions(ns) ==
    LET tables == {i \in 1..Len(ns) : ns[i].type = "table"}
    IN  [id \in {ns[i].id : i \in tables} |->
            ns[CHOOSE i \in tables : ns[i].id = id].position]

\* handlers that would make past longer than MaxPast are not offered
Bounded(st) == Len(st.history) <= MaxPast

\* the handler op ends: the viewer holds view w with parseResult pr
Leave(w, pr, op, pass) ==
    /\ Bounded(w.store)
    /\ Commit(w.nodes, pr, w.ref, w.store)
    /\ edges' = w.edges
    /\ projectId' = w.projectId
    /\ lastKnownPositionsRef' = w.lastKnown
    /\ storage' = w.storage
    /\ lastOp' = [op     |-> op,
                   pass   |-> pass,
                   before |-> IF pass = "error" /\ nodes # <<>> THEN tablePositions(nodes)
                              ELSE IF pass = "loaded" THEN EmptyMap
                              ELSE lastOp.before]

\* a handler that does not set parseResult and does not run the effect
Done(w, op) == Leave(w, parseResult, op, "none")

\* try { parseDBML(val) } catch (err): what the editor hands to onParse;
\* parseDBML throws on an empty text and on a syntax error
Parsed(val, used) ==
    IF Blank(val) \/ SyntaxError(val)
    THEN [result |-> NULL, error |-> <<thrown(val)>>]
    ELSE [result |-> <<ParseObject(val, used)>>, error |-> NULL]

\* setError(null) or setError(err.message), as every parse site of the
\* editor does before it calls onParse
setError(p) == error' = IF p.error = NULL THEN NULL ELSE <<p.error[1].message>>

\* App.handleParse(result, error), then the viewer's effect with the props
\* code and loaded
handleParse(p, code, loaded, op) ==
    LET r == loadDiagram(View, p.result, p.error, code, loaded)
    IN  /\ parseError' = p.error
        /\ Leave(r.view, p.result, op, r.pass)

\* the viewer's effect when dbmlCode changed and nothing was parsed
codeChanged(code, loaded, op) ==
    LET r == loadDiagram(View, parseResult, parseError, code, loaded)
    IN  /\ UNCHANGED parseError
        /\ Leave(r.view, parseResult, op, r.pass)

\* the components as mounted in a browser profile that holds disk
Mounted(disk) ==
    /\ history = <<>>
    /\ present = NULL
    /\ future = <<>>
    /\ ret = NULL
    /\ trace = <<>>
    /\ nodes = <<>>
    /\ edges = <<>>
    /\ projectId = "default"
    /\ direction = "TB"
    /\ lastParseResultRef = NULL
    /\ lastKnownPositionsRef = EmptyMap
    /\ dimensionsTimer = NULL
    /\ dbmlCode = disk.savedCode
    /\ parseResult = NULL
    /\ parseError = NULL
    /\ viewerPositions = EmptyMap
    /\ lastExternalValueRef = disk.savedCode
    /\ initialParseRef = FALSE
    /\ debounceTimer = NULL
    /\ timers = {}
    /\ error = NULL
    /\ storage = disk.storage
    /\ savedCode = disk.savedCode
    /\ lastOp = [op |-> "mount", pass |-> "none", before |-> EmptyMap]

\* a profile with nothing in localStorage
EmptyDisk == [storage |-> [k \in StorageKeys |-> EmptyMap], savedCode |-> ""]

\* a profile whose localStorage holds the text code and no positions
Disk(texts, code) ==
    [storage   |-> [k \in {"default"} \cup {HashHead(c) : c \in texts} |-> EmptyMap],
     savedCode |-> code]

(***************************************************************************)
(* DBMLEditor and App handlers                                             *)
(***************************************************************************)
\* clearTimeout(h) on the pending timers ts: the timer with handle h, if
\* it is still pending, is dropped
clearTimeoutOfNone(ts, h) == ts
clearTimeout(ts, h) == IF h = NULL THEN ts ELSE {t \in ts : t.id # h[1]}

\* the handle setTimeout returns: one that no pending timer has
timerHandle(ts) == CHOOSE n \in 1..(Cardinality(ts) + 1) :
                       /\ \A t \in ts : t.id # n
                       /\ \A m \in 1..(n - 1) : \E t \in ts : t.id = m

\* DBMLEditor.handleChange(val): the user edits the text.  The mount-time
\* parse effect runs on the first non-empty value and parses at once.
handleChange(val) ==
    /\ val # dbmlCode
    /\ dbmlCode' = val
    /\ lastExternalValueRef' = val
    /\ savedCode' = val
    /\ timers' = clearTimeout(timers, debounceTimer)
                    \cup {[id |-> timerHandle(clearTimeout(timers, debounceTimer)),
                            val |-> val]}
    /\ debounceTimer' = <<timerHandle(clearTimeout(timers, debounceTimer))>>
    /\ IF ~initialParseRef /\ ~Blank(val)
       THEN /\ initialParseRef' = TRUE
            /\ setError(Parsed(val, UsedOids))
            /\ handleParse(Parsed(val, UsedOids), val, viewerPositions, "handleChange")
       ELSE /\ UNCHANGED <<initialParseRef, error>>
            /\ codeChanged(val, viewerPositions, "handleChange")
    /\ UNCHANGED <<ret, trace, direction, dimensionsTimer, viewerPositions>>

\* the 500 ms timer set by handleChange fires
debounceFires ==
    \E t \in timers :
    /\ timers' = timers \ {t}
    /\ setError(Parsed(t.val, UsedOids))
    /\ handleParse(Parsed(t.val, UsedOids), dbmlCode, viewerPositions, "debounce")
    /\ UNCHANGED <<debounceTimer, ret, trace, direction, dimensionsTimer, viewerPositions, dbmlCode,
                   lastExternalValueRef, initialParseRef, savedCode>>

\* DBMLEditor.handleClear: the pending timer is not cancelled
editorClear ==
    /\ dbmlCode' = ""
    /\ lastExternalValueRef' = ""
    /\ savedCode' = ""
    /\ error' = NULL
    /\ handleParse([result |-> NULL, error |-> NULL], "", viewerPositions,
                   "editor.handleClear")
    /\ UNCHANGED <<ret, trace, direction, dimensionsTimer, viewerPositions,
                   initialParseRef, debounceTimer, timers>>

\* the text behind the Load Example button
EXAMPLE_DBML == "B"

\* DBMLEditor.handleLoadExample: the example is parsed at once and the
\* pending timer is not cancelled; when no text was parsed before, the
\* mount-time effect parses the new value once more and the viewer runs its
\* effect on each of the two results
handleLoadExample ==
    \E p1 \in {Parsed(EXAMPLE_DBML, UsedOids)} :
    \E r1 \in {loadDiagram(View, p1.result, p1.error, EXAMPLE_DBML, viewerPositions)} :
        /\ dbmlCode' = EXAMPLE_DBML
        /\ lastExternalValueRef' = EXAMPLE_DBML
        /\ savedCode' = EXAMPLE_DBML
        /\ initialParseRef' = TRUE
        /\ IF ~initialParseRef
           THEN \E used1 \in {Range(ReachedOids(r1.view.nodes, p1.result,
                                                r1.view.ref, r1.view.store))} :
                \E p2 \in {Parsed(EXAMPLE_DBML, used1)} :
                \E r2 \in {loadDiagram(r1.view, p2.result, p2.error,
                                       EXAMPLE_DBML, viewerPositions)} :
                    /\ setError(p2)
                    /\ parseError' = p2.error
                    /\ Leave(r2.view, p2.result, "handleLoadExample", r2.pass)
           ELSE /\ setError(p1)
                /\ parseError' = p1.error
                /\ Leave(r1.view, p1.result, "handleLoadExample", r1.pass)
        /\ UNCHANGED <<ret, trace, direction, dimensionsTimer, viewerPositions,
                       debounceTimer, timers>>

\* App.handleLoadDiagram(diagram) with diagram.dbml_code = code and
\* diagram.positions = positions, then the editor's effects on the new value
handleLoadDiagram(code, positions) ==
    LET initial  == ~initialParseRef /\ ~Blank(code)
        external == code # lastExternalValueRef /\ ~Blank(code)
    IN  /\ dbmlCode' = code
        /\ viewerPositions' = positions
        /\ initialParseRef' = (initialParseRef \/ initial)
        /\ lastExternalValueRef' = IF external THEN code ELSE lastExternalValueRef
        /\ IF initial \/ external
           THEN /\ setError(Parsed(code, UsedOids))
                /\ handleParse(Parsed(code, UsedOids), code, positions,
                               "handleLoadDiagram")
           ELSE /\ UNCHANGED error
                /\ codeChanged(code, positions, "handleLoadDiagram")
        /\ UNCHANGED <<ret, trace, direction, dimensionsTimer, savedCode, debounceTimer,
                       timers>>

\* the page is reloaded: every component is mounted anew over what
\* localStorage holds, and the mount-time parse runs on a saved text
reload ==
    LET v == [nodes |-> <<>>, edges |-> <<>>, projectId |-> "default", ref |-> NULL,
              lastKnown |-> EmptyMap,
              store |-> [history |-> <<>>, present |-> NULL, future |-> <<>>],
              storage |-> storage]
        p == IF ~Blank(savedCode) THEN Parsed(savedCode, {})
             ELSE [result |-> NULL, error |-> NULL]
        r == loadDiagram(v, p.result, p.error, savedCode, EmptyMap)
    IN  /\ dbmlCode' = savedCode
        /\ lastExternalValueRef' = savedCode
        /\ initialParseRef' = ~Blank(savedCode)
        /\ debounceTimer' = NULL
        /\ timers' = {}
        /\ dimensionsTimer' = NULL
        /\ viewerPositions' = EmptyMap
        /\ direction' = "TB"
        /\ parseError' = p.error
        /\ setError(p)
        /\ Leave(r.view, p.result, "reload", r.pass)
        /\ UNCHANGED <<ret, trace, savedCode>>

(***************************************************************************)
(* DBMLViewer handlers                                                     *)
(***************************************************************************)
DRAG_X == 7     \* where a drag puts a node
DRAG_Y == 8

\* positions React Flow reports for a dragged node: a point, or NaN as it
\* computes for a child node
DragPositions == {[x |-> Num(DRAG_X), y |-> Num(DRAG_Y)], [x |-> JsNaN, y |-> Num(DRAG_Y)]}

\* the map built by onNodeDragStop and by the dimensions timer: x and y of
\* every node with a valid position, and the size of a project node
positionsOf(ns) ==
    LET valid == {i \in 1..Len(ns) : ValidPosition(ns[i].position)}
        last(id) == CHOOSE i \in valid : ns[i].id = id /\ \A j \in valid : ns[j].id = id => j <= i
        sized(n) == n.type = "project" /\ Truthy(n.width) /\ Truthy(n.height)
    IN  [id \in {ns[i].id : i \in valid} |->
            [x      |-> ns[last(id)].position.x,
             y      |-> ns[last(id)].position.y,
             width  |-> IF sized(ns[last(id)]) THEN ns[last(id)].width ELSE Undef,
             height |-> IF sized(ns[last(id)]) THEN ns[last(id)].height ELSE Undef]]

\* handleNodesChange with one position change for nodes[i]: a NaN position
\* is dropped, any other is applied by applyNodeChanges to a new object
nodesChangePosition(i, pos) ==
    LET moved == [nodes EXCEPT ![i] = [@ EXCEPT !.position = pos,
                                                !.oid = FreshOid(UsedOids, 1)]]
        dropped == IsNaN(pos.x) \/ IsNaN(pos.y)
    IN  /\ Done([View EXCEPT !.nodes = IF dropped THEN nodes ELSE moved],
                IF dropped THEN "handleNodesChange:dropped" ELSE "handleNodesChange")
        /\ UNCHANGED <<ret, trace, direction, dimensionsTimer, dbmlCode, parseError, viewerPositions,
                       editorVars, savedCode>>

\* handleNodesChange with a dimensions change (React Flow has measured a
\* node): the 100 ms timer is set, its closure holding the current projectId
nodesChangeDimensions ==
    /\ nodes # <<>>
    /\ dimensionsTimer' = <<projectId>>
    /\ Done(View, "handleNodesChange:dimensions")
    /\ UNCHANGED <<ret, trace, direction, dbmlCode, parseError, viewerPositions, editorVars, savedCode>>

\* the timer set on a dimensions change fires
dimensionsTimerFires ==
    LET positions == positionsOf(getNodes)
    IN  /\ dimensionsTimer # NULL
        /\ dimensionsTimer' = NULL
        /\ IF HasKeys(positions)
           THEN /\ Done([View EXCEPT
                           !.storage = [@ EXCEPT ![dimensionsTimer[1]] = JsonRoundTrip(positions)],
                           !.lastKnown = positions],
                        "dimensionsTimer")
                /\ viewerPositions' = positions
           ELSE /\ Done(View, "dimensionsTimer")
                /\ UNCHANGED viewerPositions
        /\ UNCHANGED <<ret, trace, direction, dbmlCode, parseError, editorVars, savedCode>>

\* onNodeDragStop: the user releases a node
onNodeDragStop ==
    LET currentNodes == getNodes
        positions == positionsOf(currentNodes)
    IN  /\ nodes # <<>>
        /\ Done([View EXCEPT
                   !.storage = [@ EXCEPT ![projectId] = JsonRoundTrip(positions)],
                   !.lastKnown = positions,
                   !.store = setPresent(Store, Snapshot(currentNodes, edges))],
                "onNodeDragStop")
        /\ viewerPositions' = positions
        /\ UNCHANGED <<ret, trace, direction, dimensionsTimer, dbmlCode, parseError,
                       editorVars, savedCode>>

\* the viewer's handleClear
handleClear ==
    /\ Done([View EXCEPT !.nodes = <<>>, !.edges = <<>>,
                         !.store = setPresent(Store, Snapshot(<<>>, <<>>))],
            "handleClear")
    /\ UNCHANGED <<ret, trace, direction, dimensionsTimer, dbmlCode, parseError, viewerPositions,
                   editorVars, savedCode>>

\* handleUndo / handleRedo: r is what undo() or redo() made of the store
afterTravel(r, op) ==
    /\ IF r.ret # NULL
       THEN Done([View EXCEPT !.nodes = r.ret[1].nodes, !.edges = r.ret[1].edges,
                              !.store = r.store], op)
       ELSE Done([View EXCEPT !.store = r.store], op)
    /\ UNCHANGED <<ret, trace, direction, dimensionsTimer, dbmlCode, parseError, viewerPositions,
                   editorVars, savedCode>>

handleUndo == afterTravel(undo(Store), "handleUndo")

handleRedo == afterTravel(redo(Store), "handleRedo")

\* handleRestore: back to the nodes of the parse result
handleRestore ==
    /\ IF parseResult # NULL
       THEN Done([View EXCEPT
                    !.nodes = parseResult[1].nodes,
                    !.edges = parseResult[1].edges,
                    !.store = setPresent(Store, Snapshot(parseResult[1].nodes,
                                                         parseResult[1].edges))],
                 "handleRestore")
       ELSE Done(View, "handleRestore")
    /\ UNCHANGED <<ret, trace, direction, dimensionsTimer, dbmlCode, parseError, viewerPositions,
                   editorVars, savedCode>>

\* dagre.layout is outside the repository; it stands here as a function of
\* the nodes' sizes and of rankdir: the nodes are stacked downwards for TB
\* and rightwards for LR, and the position is NaN where a size is no finite
\* number.  Node i's top-left corner:
RECURSIVE dagreOffset(_, _, _)
dagreOffset(ns, i, dir) ==
    IF i = 1 THEN Num(0)
    ELSE JsAdd(dagreOffset(ns, i - 1, dir),
               IF dir = "LR" THEN ns[i - 1].width ELSE ns[i - 1].height)

layoutedPosition(ns, i, dir) ==
    LET off == dagreOffset(ns, i, dir)
        ok  == IsFinite(off) /\ IsFinite(ns[i].width) /\ IsFinite(ns[i].height)
    IN  IF ~ok THEN [x |-> JsNaN, y |-> JsNaN]
        ELSE IF dir = "LR" THEN [x |-> off, y |-> Num(0)]
        ELSE [x |-> Num(0), y |-> off]

\* getLayoutedElements(ns, es, dir).nodes: node.position is assigned on the
\* objects of ns themselves
getLayoutedElements(ns, dir) ==
    [i \in 1..Len(ns) |-> [ns[i] EXCEPT !.position = layoutedPosition(ns, i, dir)]]

\* the objects of q after the objects ms were assigned to in place
Assigned(q, ms) ==
    [i \in 1..Len(q) |->
        IF \E j \in 1..Len(ms) : ms[j].oid = q[i].oid
        THEN ms[CHOOSE j \in 1..Len(ms) : ms[j].oid = q[i].oid]
        ELSE q[i]]

AssignedSnapshots(ss, ms) ==
    [i \in 1..Len(ss) |-> [ss[i] EXCEPT !.nodes = Assigned(@, ms)]]

\* handleLayout(dir), called by op
layout(dir, op) ==
    LET layoutedNodes == getLayoutedElements(getNodes, dir)
        st == [history |-> AssignedSnapshots(history, layoutedNodes),
               present |-> AssignedSnapshots(present, layoutedNodes),
               future  |-> AssignedSnapshots(future, layoutedNodes)]
        pr == IF parseResult = NULL THEN NULL
              ELSE <<[parseResult[1] EXCEPT !.nodes = Assigned(@, layoutedNodes)]>>
    IN  Leave([View EXCEPT !.nodes = layoutedNodes, !.store = st], pr, op, "none")

handleLayout(dir) ==
    /\ layout(dir, "handleLayout")
    /\ UNCHANGED <<ret, trace, direction, dimensionsTimer, dbmlCode, parseError,
                   viewerPositions, editorVars, savedCode>>

handleToggleDirection ==
    LET newDirection == IF direction = "TB" THEN "LR" ELSE "TB"
    IN  /\ direction' = newDirection
        /\ layout(newDirection, "handleToggleDirection")
        /\ UNCHANGED <<ret, trace, dimensionsTimer, dbmlCode, parseError,
                       viewerPositions, editorVars, savedCode>>

(***************************************************************************)
(* The viewer with its history: editing, dragging, layout, undo and redo.  *)
(***************************************************************************)
ViewerTexts == {"A"}

\* the nodes the user drags
ViewerDragged == {"t1"}

\* indexes of the nodes with an id in ids
Indexes(ids) == {i \in 1..Len(nodes) : nodes[i].id \in ids}

\* in this specification past is kept shorter still
MaxViewerPast == 1

ShortPast == Len(history') <= MaxViewerPast

ViewerNext ==
    \/ \E val \in ViewerTexts : handleChange(val) /\ ShortPast
    \/ debounceFires /\ ShortPast
    \/ \E i \in Indexes(ViewerDragged), pos \in DragPositions : nodesChangePosition(i, pos)
    \/ onNodeDragStop /\ ShortPast
    \/ handleClear /\ ShortPast
    \/ handleUndo
    \/ handleRedo /\ ShortPast
    \/ handleRestore /\ ShortPast
    \/ \E dir \in {"TB", "LR"} : handleLayout(dir)
    \/ handleToggleDirection

SpecViewer == Mounted(EmptyDisk) /\ [][ViewerNext]_vars

(***************************************************************************)
(* Reconciliation: texts typed and loaded from the library, drags, saved   *)
(* positions and page reloads.                                             *)
(***************************************************************************)
LOADED_X == 70      \* coordinates found in library diagrams
LOADED_Y == 90

\* diagram.positions of the library's diagrams, as JSON.parse delivers
\* them: null or {}, a map for one of the nodes, and a map whose entries
\* have an unusable coordinate each (1e999 parses to Infinity)
LibraryPositions ==
    { EmptyMap,
      [id \in {"t1"} |-> Entry(Num(LOADED_X), Num(LOADED_Y))],
      [id \in {"t1", "t2", "group-g"} |->
          IF id = "t1" THEN Entry(PosInf, NegInf)
          ELSE IF id = "t2" THEN Entry(JsNull, Num(LOADED_Y))
          ELSE Entry(JsStr, Undef)] }

\* texts the user types, texts of the library's diagrams, nodes dragged
TypedTexts       == {"A"}
LibraryTexts     == {"A", "A2"}
ReconcileDragged == {"t2"}

ReconcileNext ==
    \/ \E val \in TypedTexts : handleChange(val)
    \/ debounceFires
    \/ \E code \in LibraryTexts, positions \in LibraryPositions :
            handleLoadDiagram(code, positions)
    \/ \E i \in Indexes(ReconcileDragged), pos \in DragPositions :
            nodesChangePosition(i, pos)
    \/ onNodeDragStop
    \/ reload

SpecReconcile == Mounted(EmptyDisk) /\ [][ReconcileNext]_vars

(***************************************************************************)
(* The editor's Clear button and React Flow's measuring of nodes.          *)
(***************************************************************************)
SessionNext ==
    \/ \E val \in TypedTexts : handleChange(val)
    \/ debounceFires
    \/ editorClear
    \/ nodesChangeDimensions
    \/ dimensionsTimerFires

SpecSession == Mounted(EmptyDisk) /\ [][SessionNext]_vars

(***************************************************************************)
(* Claims about the viewer                                                 *)
(***************************************************************************)
PositionsIn(q) == [i \in 1..Len(q) |-> q[i].position]

\* the position of the node with this id in q
PositionAt(q, id) == q[CHOOSE i \in 1..Len(q) : q[i].id = id].position

HasNode(q, id) == \E i \in 1..Len(q) : q[i].id = id

Point(x, y) == [x |-> Num(x), y |-> Num(y)]

StoredSnapshots == Range(history) \cup Range(present) \cup Range(future)

LayoutOps == {"handleLayout", "handleToggleDirection"}

C5_MutationsPushSnapshot ==
    [][(lastOp'.op \in LayoutOps \cup {"onNodeDragStop"} /\ nodes # <<>>)
          => /\ present' # NULL
             /\ Vals(present'[1].nodes) = Vals(nodes')
             /\ present # NULL =>
                  LET back == undo([history |-> history', present |-> present',
                                    future |-> future']).ret
                  IN  back # NULL /\ Vals(back[1].nodes) = Vals(present[1].nodes)]_vars

(***************************************************************************)
(* Claims about reconciliation                                             *)
(***************************************************************************)
\* a reconciliation pass has just ended
Reconciled == lastOp.pass = "loaded"

\* the step is a reconciliation pass; the sources it read
Pass == lastOp'.pass = "loaded"
PassLoaded    == viewerPositions'
PassLastKnown == IF lastOp'.op = "reload" THEN EmptyMap ELSE lastKnownPositionsRef
PassCurrent   ==
    IF lastOp'.op = "reload" THEN EmptyMap
    ELSE [id \in {nodes[i].id : i \in {j \in 1..Len(nodes) : ValidPosition(nodes[j].position)}}
             |-> PositionAt(nodes, id)]
PassSaved     == storage[projectId']
PassParsed    == parseResult'[1].nodes

\* where a node is put when map m alone decides
PlacedBy(m, n) ==
    IF n.id \in DOMAIN m /\ ValidPosition(m[n.id])
    THEN [x |-> m[n.id].x, y |-> m[n.id].y]
    ELSE n.position

\* the map that decides by the order of precedence
PassWinner ==
    IF HasKeys(PassLoaded) THEN PassLoaded
    ELSE IF HasKeys(PassLastKnown) THEN PassLastKnown
    ELSE IF HasKeys(PassCurrent) THEN PassCurrent
    ELSE PassSaved

\* both coordinates of the entry are finite numbers
Usable(e) == IsFinite(e.x) /\ IsFinite(e.y)

\* C6: after a reconciliation pass every node of the graph has a finite
\* position.x and position.y, and a node whose entry in the winning map has
\* a coordinate that is no finite number is where parseDBML put it.
C6_FinitePositions ==
    [][Pass =>
        \A i \in 1..Len(nodes') :
            /\ IsFinite(nodes'[i].position.x)
            /\ IsFinite(nodes'[i].position.y)
            /\ (nodes'[i].id \in DOMAIN PassWinner /\ ~Usable(PassWinner[nodes'[i].id]))
                  => nodes'[i].position = PassParsed[i].position]_vars

\* C7: a pass places every node by one map alone: the loaded positions if
\* they have a key, else lastKnownPositions if they have one, else the
\* valid positions of the nodes on screen if there is one, else the stored
\* map; a node the deciding map has no valid entry for is where parseDBML
\* put it, whatever the lower-ranked maps say.
C7_Precedence ==
    [][Pass =>
        /\ Len(nodes') = Len(PassParsed)
        /\ \A i \in 1..Len(nodes') :
              nodes'[i].position = PlacedBy(PassWinner, PassParsed[i])]_vars

\* the loaded map had no entry for t2, which the user had dragged and
\* dropped before: t2 is back where parseDBML puts it
C7_Witness ==
    /\ Reconciled
    /\ lastOp.op = "handleLoadDiagram"
    /\ DOMAIN viewerPositions = {"t1"}
    /\ history # <<>>
    /\ HasNode(history[Len(history)].nodes, "t2")
    /\ PositionAt(history[Len(history)].nodes, "t2") = Point(DRAG_X, DRAG_Y)
    /\ PositionAt(nodes, "t1") = Point(LOADED_X, LOADED_Y)
    /\ PositionAt(nodes, "t2") # Point(DRAG_X, DRAG_Y)

\* C8 as the specification states it: after a pass run with loaded
\* positions lastKnownPositions is empty.
C8_LastKnownEmptyAfterLoad ==
    (Reconciled /\ HasKeys(viewerPositions)) => ~HasKeys(lastKnownPositionsRef)

\* C8: after a pass run with loaded positions, lastKnownPositions is a copy
\* of the loaded positions.
C8_LastKnownIsLoaded ==
    (Reconciled /\ HasKeys(viewerPositions)) => lastKnownPositionsRef = viewerPositions

\* a pass with loaded positions that followed a drag and drop of t2
C8_Witness ==
    /\ Reconciled
    /\ lastOp.op = "handleLoadDiagram"
    /\ DOMAIN viewerPositions = {"t1"}
    /\ lastKnownPositionsRef = viewerPositions
    /\ Len(history) = 2
    /\ PositionAt(history[2].nodes, "t2") = Point(DRAG_X, DRAG_Y)

SameIds(p, q) == [i \in 1..Len(p) |-> p[i].id] = [i \in 1..Len(q) |-> q[i].id]

\* C9: in a pass with loaded positions and lastKnownPositions that disagree
\* on a node, the node is put at the loaded coordinates; and when the next
\* pass is for the same schema and has no loaded positions, the nodes the
\* loaded map placed stay where they are.
C9_LoadedWinsAndStays ==
    [][Pass =>
        /\ (HasKeys(PassLoaded) /\ HasKeys(PassLastKnown)) =>
              \A i \in 1..Len(nodes') :
                 LET id == nodes'[i].id
                 IN  (/\ id \in DOMAIN PassLoaded
                      /\ id \in DOMAIN PassLastKnown
                      /\ Usable(PassLoaded[id])
                      /\ PassLoaded[id] # PassLastKnown[id])
                        => nodes'[i].position = [x |-> PassLoaded[id].x,
                                                 y |-> PassLoaded[id].y]
        /\ (/\ Reconciled
            /\ HasKeys(viewerPositions)
            /\ ~HasKeys(PassLoaded)
            /\ lastOp'.op # "reload"
            /\ SameIds(nodes, PassParsed)) =>
              \A i \in 1..Len(nodes') :
                 (nodes'[i].id \in DOMAIN viewerPositions
                    /\ Usable(viewerPositions[nodes'[i].id]))
                        => nodes'[i].position = nodes[i].position]_vars

\* t1 was loaded at infinity, loaded again at a point, and the pass that
\* followed without loaded positions left it at that point
C9_Witness ==
    /\ Reconciled
    /\ ~HasKeys(viewerPositions)
    /\ Len(history) = 2
    /\ PositionAt(history[1].nodes, "t1") = [x |-> PosInf, y |-> NegInf]
    /\ PositionAt(history[2].nodes, "t1") = Point(LOADED_X, LOADED_Y)
    /\ PositionAt(nodes, "t1") = Point(LOADED_X, LOADED_Y)
    /\ lastKnownPositionsRef = [id \in {"t1"} |-> Entry(Num(LOADED_X), Num(LOADED_Y))]

\* C10: when two passes for the same schema and text key follow each other,
\* both without loaded positions, the second leaves the node positions, the
\* group sizes and the stored position map as the first left them.
C10_Idempotent ==
    [][(/\ Pass
        /\ Reconciled
        /\ lastOp'.op # "reload"
        /\ ~HasKeys(viewerPositions)
        /\ ~HasKeys(PassLoaded)
        /\ projectId' = projectId
        /\ SameIds(nodes, PassParsed))
          => /\ Vals(nodes') = Vals(nodes)
             /\ storage'[projectId'] = storage[projectId]]_vars

(***************************************************************************)
(* The store on its own: any caller, any order of calls.                   *)
(***************************************************************************)
HistInit == Mounted(EmptyDisk)

CallSetPresent(s) ==
    /\ Len(history) < MaxHistory
    /\ SetStore(setPresent(Store, s))
    /\ UNCHANGED ret
    /\ trace' = Log(trace, Call("setPresent", <<s>>))
    /\ UNCHANGED <<viewerVars, appVars, editorVars, diskVars, lastOp>>

CallUndo ==
    /\ SetStore(undo(Store).store)
    /\ ret' = undo(Store).ret
    /\ trace' = Log(trace, Call("undo", NULL))
    /\ UNCHANGED <<viewerVars, appVars, editorVars, diskVars, lastOp>>

CallRedo ==
    /\ SetStore(redo(Store).store)
    /\ ret' = redo(Store).ret
    /\ trace' = Log(trace, Call("redo", NULL))
    /\ UNCHANGED <<viewerVars, appVars, editorVars, diskVars, lastOp>>

HistNext ==
    \/ \E s \in Snapshots : CallSetPresent(s)
    \/ CallUndo
    \/ CallRedo

SpecHistory == HistInit /\ [][HistNext]_vars

\* the last k calls the observer saw (<<>> when it saw fewer)
LastCalls(k) ==
    IF Len(trace) >= k THEN SubSeq(trace, Len(trace) - k + 1, Len(trace)) ELSE <<>>

\* C1: after setPresent(A); setPresent(B); undo() the value returned and the
\* new present are A, and an immediately following redo() returns B and
\* makes B the present again, whatever the store held before.
C1_UndoThenRedo ==
    \A A, B \in Snapshots :
        /\ LastCalls(3) = <<Call("setPresent", <<A>>), Call("setPresent", <<B>>),
                            Call("undo", NULL)>>
              => (ret = <<A>> /\ present = <<A>>)
        /\ LastCalls(4) = <<Call("setPresent", <<A>>), Call("setPresent", <<B>>),
                            Call("undo", NULL), Call("redo", NULL)>>
              => (ret = <<B>> /\ present = <<B>>)

C1_Witness ==
    /\ LastCalls(4) = <<Call("setPresent", <<1>>), Call("setPresent", <<2>>),
                        Call("undo", NULL), Call("redo", NULL)>>
    /\ ret = <<2>>
    /\ Len(history) = 3

\* C2: setPresent(s) with a present snapshot appends the old present to the
\* top of past, makes s the present and empties future; so a redo() called
\* directly after any setPresent returns null.
C2_SetPresentPushes ==
    /\ [][\A s \in Snapshots :
            (CallSetPresent(s) /\ present # NULL)
               => /\ history' = Append(history, present[1])
                  /\ present' = <<s>>
                  /\ future' = <<>>]_vars
    /\ [](\A s \in Snapshots :
            LastCalls(2) = <<Call("setPresent", <<s>>), Call("redo", NULL)>>
               => ret = NULL)

C2_Witness ==
    /\ LastCalls(3) = <<Call("undo", NULL), Call("setPresent", <<3>>), Call("redo", NULL)>>
    /\ history = <<1, 2>>
    /\ present = <<3>>
    /\ ret = NULL

\* C3: undo() with an empty past returns null and leaves past, present and
\* future unchanged; redo() with an empty future returns null and leaves
\* past, present and future unchanged.
C3_EmptyUndoRedoNoOp ==
    /\ [][(CallUndo /\ history = <<>>)
             => (ret' = NULL /\ UNCHANGED <<history, present, future>>)]_vars
    /\ [][(CallRedo /\ future = <<>>)
             => (ret' = NULL /\ UNCHANGED <<history, present, future>>)]_vars

C3_Witness ==
    /\ LastCalls(3) = <<Call("setPresent", <<1>>), Call("undo", NULL), Call("redo", NULL)>>
    /\ history = <<>>
    /\ present = <<1>>
    /\ future = <<>>
    /\ ret = NULL

\* past, then present, then future, as one sequence of snapshots
Line(st) == st.history \o st.present \o st.future

\* C26: undo() and redo() leave the sequence past, present, future as it was;
\* a redo() after a successful undo(), and an undo() after a successful
\* redo(), give back the past, present and future from before
C26_UndoRedoConserve ==
    [][/\ (CallUndo \/ CallRedo) => Line(Store') = Line(Store)
       /\ (CallUndo /\ ret' # NULL) => redo(Store').store = Store
       /\ (CallRedo /\ ret' # NULL) => undo(Store').store = Store]_vars

\* a redo() and then an undo() both moved a snapshot, between two others
C26_Witness ==
    /\ LastCalls(2) = <<Call("redo", NULL), Call("undo", NULL)>>
    /\ ret # NULL
    /\ Len(history) = 1
    /\ Len(future) = 2

\* the handler before this step arranged the nodes: a drag-stop, a layout,
\* a restore, or an undo or redo that put a snapshot on screen
Arranged ==
    \/ lastOp.op \in LayoutOps \cup {"onNodeDragStop"}
    \/ /\ lastOp.op \in {"handleUndo", "handleRedo", "handleRestore"}
       /\ present # NULL
       /\ PositionsIn(nodes) = PositionsIn(present[1].nodes)

\* C28: when the nodes were last arranged by a drag-stop, an undo, a redo, a
\* layout or a restore, a re-parse of typed text that succeeds leaves every
\* node that is still in the graph where it was just before the re-parse
C28_ArrangementSurvivesReparse ==
    [][(Pass /\ Arranged /\ lastOp'.op \in {"debounce", "handleChange"})
          => \A i \in 1..Len(nodes) :
                HasNode(nodes', nodes[i].id)
                    => PositionAt(nodes', nodes[i].id) = nodes[i].position]_vars

\* C29: after a diagram is opened from the library with a position map that
\* is not empty, every node of the committed graph with a valid entry in the
\* map is at the entry's coordinates, also when the diagram's text is the
\* text already in the editor
C29_LoadedPositionsApplied ==
    [][(lastOp'.op = "handleLoadDiagram" /\ HasKeys(viewerPositions'))
          => \A i \in 1..Len(nodes') :
                (/\ nodes'[i].id \in DOMAIN viewerPositions'
                 /\ ValidPosition(viewerPositions'[nodes'[i].id]))
                    => /\ nodes'[i].position.x = viewerPositions'[nodes'[i].id].x
                       /\ nodes'[i].position.y = viewerPositions'[nodes'[i].id].y]_vars

\* C19: after each reconciliation pass the map handed to savePositions and
\* kept as lastKnownPositions has, for every node of the committed graph, an
\* entry with that node's final x and y, also for a node the winning source
\* did not place
C19_PersistedCoversGraph ==
    [][Pass =>
          \A i \in 1..Len(nodes') :
              \A m \in {lastKnownPositionsRef', storage'[projectId']} :
                  /\ nodes'[i].id \in DOMAIN m
                  /\ m[nodes'[i].id].x = nodes'[i].position.x
                  /\ m[nodes'[i].id].y = nodes'[i].position.y]_vars

(***************************************************************************)
(* The editor: texts are typed (one that parses, one with a syntax error,  *)
(* the empty and a whitespace-only one), the debounce timers fire, the     *)
(* editor is cleared, a table is moved                                     *)
(***************************************************************************)
EditorTexts   == {"A", "E", "", " "}
EditorDragged == {"t2"}
EditorMoves   == {[x |-> Num(DRAG_X), y |-> Num(DRAG_Y)]}

EditorNext ==
    \/ \E val \in EditorTexts : handleChange(val)
    \/ debounceFires
    \/ editorClear
    \/ \E i \in Indexes(EditorDragged), pos \in EditorMoves : nodesChangePosition(i, pos)
    \/ onNodeDragStop

SpecEditor == Mounted(EmptyDisk) /\ [][EditorNext]_vars

\* this step is a debounce timer firing, and the timers that fired
Fires == lastOp'.op = "debounce" /\ timers' # timers
Fired == timers \ timers'

\* C15: when the text has become empty or whitespace-only by typing and the
\* debounced parse fires, the banner gets no error message and the viewer
\* is handed no parse error
C15_BlankIsNoError ==
    [][(Fires /\ \A t \in Fired : Blank(t.val))
            => (error' = NULL /\ parseError' = NULL)]_vars

\* C16: a parse that fails with a syntax error while a graph is displayed
\* empties the committed graph, and the next parse that succeeds puts every
\* table that was displayed before the error back where it was
C16_ErrorClearsThenRestores ==
    [][/\ (Fires /\ nodes # <<>> /\ \A t \in Fired : SyntaxError(t.val))
            => (nodes' = <<>> /\ edges' = <<>>)
       /\ (Pass /\ lastOp.before # EmptyMap)
            => \A id \in DOMAIN lastOp.before :
                  HasNode(nodes', id) => PositionAt(nodes', id) = lastOp.before[id]]_vars

\* C30: after the editor's Clear the committed graph has no node and no
\* edge, whatever was displayed before
C30_ClearEmptiesGraph ==
    [][lastOp'.op = "editor.handleClear" => (nodes' = <<>> /\ edges' = <<>>)]_vars

QuiesceTyped   == {"A", "E"}
QuiesceLibrary == {"A"}

QuiesceNext ==
    \/ \E val \in QuiesceTyped : handleChange(val)
    \/ debounceFires
    \/ handleLoadExample
    \/ editorClear
    \/ \E code \in QuiesceLibrary : handleLoadDiagram(code, EmptyMap)

SpecQuiesce == Mounted(EmptyDisk) /\ [][QuiesceNext]_vars

\* the application holds what parsing the text in the editor gives: no
\* result for a blank text, the thrown error for a text with a syntax
\* error, else the graph of the text's schema and no error
HoldsParseOf(code) ==
    IF Blank(code) THEN parseResult = NULL
    ELSE IF SyntaxError(code)
    THEN parseResult = NULL /\ parseError = <<thrown(code)>>
    ELSE LET r == parseDBML(Database(code))
         IN  /\ parseError = NULL
             /\ parseResult # NULL
             /\ Vals(parseResult[1].nodes)
                  = [i \in 1..Len(r.nodes) |-> WithOid(r.nodes[i], 0)]
             /\ parseResult[1].edges = r.edges

\* C27: whatever the interleaving of typing, Load Example, Clear and diagram
\* loads, once no debounce timer is pending the parse result and the parse
\* error the application holds are those of the text in the editor
C27_QuiescentConsistency == (timers = {}) => HoldsParseOf(dbmlCode)

(***************************************************************************)
(* Groups and their children: diagrams are loaded from the library with    *)
(* finite positions for the tables of a group                              *)
(***************************************************************************)
FAR_X  == 1000      \* a child dragged far to the right of its group's origin
FAR_Y  == 900       \* and far below it
NEAR_X == 40        \* where parseDBML puts the first child of a group
NEAR_Y == 100

\* "A" has group g with child t1; the other text has group g with children
\* t1 and t2 and an empty group h
GroupTexts == {"A", SchemaText(<<3, 3, 1, 1>>)}

GroupPositions ==
    { [id \in {"t1"} |-> Entry(Num(NEAR_X), Num(NEAR_Y))],
      [id \in {"t1"} |-> Entry(Num(FAR_X), Num(FAR_Y))],
      [id \in {"t1", "t2"} |->
          IF id = "t1" THEN Entry(Num(0), Num(0)) ELSE Entry(Num(FAR_X), Num(NEAR_Y))],
      [id \in {"t1", "t2"} |->
          IF id = "t1" THEN Entry(Num(0 - FAR_X), Num(NEAR_Y))
          ELSE Entry(Num(NEAR_X), Num(FAR_Y))] }

GroupsNext ==
    \E code \in GroupTexts, positions \in GroupPositions :
        handleLoadDiagram(code, positions)
SpecGroups == Mounted(Disk(GroupTexts, "")) /\ [][GroupsNext]_vars

\* the children of the group at nodes[i], and whether the group's box
\* reaches past the far side of child c by the padding
Children(i) == {j \in 1..Len(nodes) : nodes[j].parentNode = nodes[i].id}
Encloses(g, c) ==
    /\ g.width.t = "num"
    /\ g.height.t = "num"
    /\ g.width.n >= c.position.x.n + OrElse(c.width, Num(VIEW_CHILD_WIDTH)).n
                        + VIEW_GROUP_PADDING
    /\ g.height.n >= c.position.y.n + OrElse(c.height, Num(VIEW_CHILD_HEIGHT)).n
                        + VIEW_GROUP_PADDING

\* C11: after a reconciliation pass every group with children, wherever
\* they are (at finite positions relative to the group), is at least as wide
\* and as high as the far side of each child's box plus the padding
C11_GroupEnclosesChildren ==
    Reconciled =>
        \A i \in 1..Len(nodes) :
            nodes[i].type = "group" =>
                \A j \in Children(i) :
                    IsFinite(nodes[j].position.x) /\ IsFinite(nodes[j].position.y)
                        => Encloses(nodes[i], nodes[j])

(***************************************************************************)
(* The parser on its own: the app is mounted over a saved text and the     *)
(* mount-time effect hands it to parseDBML                                 *)
(***************************************************************************)
ParserTexts == SchemaTexts \cup ErrorTexts

ParserInit == \E code \in ParserTexts : Mounted(Disk(SchemaTexts, code))
ParserNext == reload
SpecParser == ParserInit /\ [][ParserNext]_vars

\* the saved text was handed to parseDBML, and it was a schema / an error
ParsedSaved  == lastOp.op = "reload"
ParsedSchema == ParsedSaved /\ dbmlCode \in SchemaTexts
ParsedFaulty == ParsedSaved /\ dbmlCode \in ErrorTexts
TableNames(db) == {db.tables[k].name : k \in 1..Len(db.tables)}
GroupNames(db) == {db.tableGroups[g].name : g \in 1..Len(db.tableGroups)}

\* C12: a schema with no table, whatever its groups, refs and project name,
\* makes parseDBML return no node and no edge, and nothing is thrown
C12_NoTablesNoGraph ==
    (ParsedSchema /\ Database(dbmlCode).tables = <<>>)
        => /\ parseError = NULL
           /\ error = NULL
           /\ parseResult # NULL
           /\ parseResult[1].nodes = <<>>
           /\ parseResult[1].edges = <<>>

\* a schema with groups, refs and a project name but no table was parsed
C12_Witness ==
    /\ ParsedSchema
    /\ Database(dbmlCode).tables = <<>>
    /\ Len(Database(dbmlCode).tableGroups) = 2
    /\ Len(Database(dbmlCode).refs) = 3
    /\ Database(dbmlCode).name # ""
    /\ parseResult # NULL

\* the ref at index k has two endpoints and both name a table of db
Linked(db, k) ==
    /\ Len(db.refs[k].endpoints) = 2
    /\ \A j \in 1..2 : db.refs[k].endpoints[j] \in TableNames(db)
EdgeId(db, k) ==
    "e" \o ToString(k - 1) \o "-" \o db.refs[k].endpoints[1] \o "-"
        \o db.refs[k].endpoints[2]

\* C13: every relationship whose two endpoints name a table gets exactly one
\* edge, from the node of its first table to the node of its second (the
\* same node for a self-reference); a relationship with a missing endpoint
\* gets no edge, throws nothing and costs the others nothing
C13_OneEdgePerRelationship ==
    ParsedSchema =>
        LET db == Database(dbmlCode)
            es == parseResult[1].edges
            of(k) == {i \in 1..Len(es) : es[i].id = EdgeId(db, k)}
        IN  /\ parseError = NULL
            /\ \A k \in 1..Len(db.refs) :
                  Linked(db, k) =>
                        /\ Cardinality(of(k)) = 1
                        /\ \A i \in of(k) :
                              /\ es[i].source = db.refs[k].endpoints[1]
                              /\ es[i].target = db.refs[k].endpoints[2]
                              /\ \E n \in Range(parseResult[1].nodes) :
                                    n.type = "table" /\ n.id = es[i].source
                              /\ \E n \in Range(parseResult[1].nodes) :
                                    n.type = "table" /\ n.id = es[i].target
            /\ \A i \in 1..Len(es) :
                  \E k \in 1..Len(db.refs) :
                      Len(db.refs[k].endpoints) = 2 /\ es[i].id = EdgeId(db, k)

\* a schema whose first ref lacks an endpoint and whose second joins two
\* tables was parsed, and one whose ref joins a table to itself
C13_Witness ==
    /\ ParsedSchema
    /\ Len(Database(dbmlCode).refs) = 2
    /\ Len(Database(dbmlCode).refs[1].endpoints) = 1
    /\ Linked(Database(dbmlCode), 2)
    /\ Len(parseResult[1].edges) = 1
C13_WitnessSelf ==
    /\ ParsedSchema
    /\ Len(Database(dbmlCode).refs) = 1
    /\ Linked(Database(dbmlCode), 1)
    /\ Len(parseResult[1].edges) = 1
    /\ parseResult[1].edges[1].source = parseResult[1].edges[1].target

\* C14: when the table names are pairwise distinct and the group names are
\* pairwise distinct, no two nodes parseDBML returns have the same id
C14_UniqueNodeIds ==
    ParsedSchema =>
        LET db == Database(dbmlCode)
            ns == parseResult[1].nodes
        IN  (/\ Cardinality(TableNames(db)) = Len(db.tables)
             /\ Cardinality(GroupNames(db)) = Len(db.tableGroups))
                => \A i, j \in 1..Len(ns) : ns[i].id = ns[j].id => i = j

\* the nodes parseDBML returned, by kind
ParsedNodes == IF parseResult = NULL THEN <<>> ELSE parseResult[1].nodes
GroupNodes == {i \in 1..Len(ParsedNodes) : ParsedNodes[i].type = "group"}
TableNodes == {i \in 1..Len(ParsedNodes) : ParsedNodes[i].type = "table"}
\* the groups of db that list the table called name, in declaration order
Listing(db, name) ==
    {g \in 1..Len(db.tableGroups) : name \in Range(db.tableGroups[g].tables)}
First(S) == CHOOSE g \in S : \A h \in S : g <= h
\* the colour of the group node made for tableGroups[g]
GroupColour(db, g) ==
    IF db.tableGroups[g].headerColor # "" THEN db.tableGroups[g].headerColor
    ELSE groupColors[((g - 1) % Len(groupColors)) + 1]

\* C21: a table listed in several groups is the child of the first group
\* that lists it, and without a colour of its own it has that group's colour
C21_FirstGroupWins ==
    ParsedSchema =>
        LET db == Database(dbmlCode)
        IN  \A i \in TableNodes :
                LET n == ParsedNodes[i]
                    k == CHOOSE k \in 1..Len(db.tables) : db.tables[k].name = n.id
                IN  Listing(db, n.id) # {} =>
                        /\ n.parentNode
                             = "group-" \o db.tableGroups[First(Listing(db, n.id))].name
                        /\ db.tables[k].headerColor = ""
                             => n.color = GroupColour(db, First(Listing(db, n.id)))

\* C22: all group nodes have the same y, no two of their default rectangles
\* overlap, and each group starts the fixed gap to the right of the one
\* before it
C22_GroupsSideBySide ==
    ParsedSchema =>
        \A i, j \in GroupNodes :
            LET a == ParsedNodes[i]
                b == ParsedNodes[j]
            IN  /\ a.position.y = b.position.y
                /\ i < j => b.position.x.n >= a.position.x.n + a.width.n
                /\ j = i + 1 => b.position.x.n = a.position.x.n + a.width.n + GROUP_GAP

\* C23: the i-th table without a group is at column i mod 3 and row
\* floor(i / 3) of the grid (at its origin and one column to the right for
\* the first two when there is no group), and when there are groups no such
\* table starts above the bottom edge of a group node
C23_UngroupedGrid ==
    ParsedSchema =>
        LET db == Database(dbmlCode)
            free == {i \in TableNodes : ParsedNodes[i].parentNode = ""}
            index(i) == Cardinality({j \in free : j < i})
            startY == IF Len(db.tableGroups) > 0 THEN UNGROUPED_Y0_GROUPS ELSE UNGROUPED_Y0
        IN  \A i \in free :
                /\ ParsedNodes[i].position.x
                     = Num((index(i) % UNGROUPED_COLS) * UNGROUPED_DX + UNGROUPED_X0)
                /\ ParsedNodes[i].position.y
                     = Num((index(i) \div UNGROUPED_COLS) * UNGROUPED_DY + startY)
                /\ \A g \in GroupNodes :
                      ParsedNodes[i].position.y.n
                          >= ParsedNodes[g].position.y.n + ParsedNodes[g].height.n

\* C24: the default box of every table of a group lies inside the group's
\* default width and height with the padding to spare on the right and at
\* the bottom, starts at or below the header plus the padding, and no two
\* tables of one group are in the same cell
C24_ChildrenInsideGroup ==
    ParsedSchema =>
        \A g \in GroupNodes, i \in TableNodes :
            LET group == ParsedNodes[g]
                n     == ParsedNodes[i]
            IN  n.parentNode = group.id =>
                    /\ n.position.x.n >= GROUP_PADDING
                    /\ n.position.y.n >= GROUP_HEADER_HEIGHT + GROUP_PADDING
                    /\ n.position.x.n + TABLE_WIDTH + GROUP_PADDING <= group.width.n
                    /\ n.position.y.n + TABLE_HEIGHT + GROUP_PADDING <= group.height.n
                    /\ \A j \in TableNodes :
                          (j # i /\ ParsedNodes[j].parentNode = group.id)
                              => ParsedNodes[j].position # n.position

\* a group of five tables was parsed: its children fill three rows
C24_Witness ==
    /\ ParsedSchema
    /\ \E g \in GroupNodes :
          Cardinality({i \in TableNodes : ParsedNodes[i].parentNode = ParsedNodes[g].id}) = 5

\* C25: a table with a header colour of its own keeps it; any other table of
\* a group has the colour of its group's node; any other table has #667eea
C25_ColourPrecedence ==
    ParsedSchema =>
        LET db == Database(dbmlCode)
        IN  \A i \in TableNodes :
                LET n == ParsedNodes[i]
                    k == CHOOSE k \in 1..Len(db.tables) : db.tables[k].name = n.id
                IN  IF db.tables[k].headerColor # "" THEN n.color = db.tables[k].headerColor
                    ELSE IF n.parentNode # ""
                    THEN \A g \in GroupNodes :
                            ParsedNodes[g].id = n.parentNode => n.color = ParsedNodes[g].color
                    ELSE n.color = DEFAULT_COLOR

\* the first entry of the array a (<<>> for none, else <<entries>>) has a
\* position in field f
FirstHas(a, f) == a # NULL /\ Len(a[1]) > 0 /\ a[1][1][f] # NULL
\* the parser error e shows a position in one of the three shapes
Exposes(e) ==
    \/ \E a \in {e.diags, e.datas} : FirstHas(a, "location") \/ FirstHas(a, "start")
    \/ e.location # NULL

\* C17: the error parseDBML throws has a location {line, column} whenever
\* the parser's error shows one in any of the three shapes, whatever else it
\* carries; when it shows none, the thrown error has no location and its
\* message is the parser's message
C17_LocationExtracted ==
    ParsedFaulty =>
        LET e == ParserError(dbmlCode)
        IN  /\ parseError # NULL
            /\ Exposes(e) => parseError[1].location # NULL
            /\ ~Exposes(e) => /\ parseError[1].location = NULL
                              /\ e.message # "" => parseError[1].message = e.message

\* C20: there is a cap that the length of past never exceeds: past stays
\* below the length at which setPresent is no longer called here, whatever
\* that length is set to
C20_PastBounded == Len(history) < MaxHistory

====
